---- MODULE Spec2Model ----
(***************************************************************************)
(* Audio-reactive lighting pipeline of openrgb-scripts:                    *)
(*   effects/audio.py   AudioEffect   (callback, start, loop, stop)        *)
(*   classes/Effect.py  Effect        (run, stop_effect, device output)    *)
(*   classes/Colors.py  Colors        (palette)                            *)
(*                                                                         *)
(* Units.  Time is counted in ticks of 0.01 s, amplitudes in hundredths    *)
(* (held as floats of Precision significant bits),                         *)
(* (100 = full scale 1.0), max_brightness in percent.  Colours are RGB     *)
(* triples <<r, g, b>>, the shape the callback indexes (target_color[0]).  *)
(* Arithmetic is exact where the program uses binary floating point.       *)
(*                                                                         *)
(* effects/audio_loopback.py does not compile (stray character on line     *)
(* 135), so the running program is AudioEffect; its mode 'loopback' has    *)
(* the band-driven colour path of the loopback variant.                    *)
(***************************************************************************)
EXTENDS Integers, Sequences, FiniteSets, TLC

\* ---------------------------------------------------------------- bounds
MaxTime == 6          \* last clock value of the state-machine specification
MaxClock == 3         \* last clock value of the threaded specification
MaxRandom == 2        \* random.randint draws are taken from MaxRandom+1 colours
MaxDecay == 9         \* last clock value of the specification with fairness
MaxLen == 3           \* longest block handed to a helper on its own
MaxBand == 7          \* band indices handed to the colour mapper: -MaxBand..MaxBand

\* Python's None, per type
NoDevice == 0 - 1000     \* device index None
NoColor == <<>>          \* no colour read or transmitted yet

\* ------------------------------------------------------------ Colors.py
BLACK == <<0, 0, 0>>
RED == <<255, 0, 0>>
ORANGE == <<255, 127, 0>>
YELLOW == <<255, 255, 0>>
GREEN == <<0, 255, 0>>
BLUE == <<0, 0, 255>>
VIOLET == <<148, 0, 211>>

\* RGBColor(random.randint(0,255), ...): a few representatives of the draw,
\* black (i = 0) included since randint can return 0 three times.
RandomColors == { <<(85 * i) % 256, (170 * i) % 256, (255 * i) % 256>> : i \in 0..MaxRandom }

\* ------------------------------------------------- floating-point numbers
\* Python floats round every result to a fixed number of significant bits
\* (53 in the program).  The model keeps Precision significant bits, counts
\* amplitudes in units of 1/Scale hundredths and squares in squared units,
\* and rounds to nearest, ties to the even significand.
Precision == 7
Scale == 2 ^ (Precision - 1)

\* the float whose value is h hundredths, e.g. Float(5) for 0.05
Float(h) == h * Scale

Abs(x) == IF x < 0 THEN -x ELSE x

\* floor(log2(x)) for x >= 1
RECURSIVE Log2(_)
Log2(x) == IF x < 2 THEN 0 ELSE 1 + Log2(x \div 2)

\* the spacing of the floats around a value whose integer part is q
Ulp(q) == IF Log2(q) < Precision THEN 1 ELSE 2 ^ (Log2(q) - (Precision - 1))

\* the float nearest to num / den, for num >= 0 and den > 0
Round(num, den) ==
    LET d == den * Ulp(num \div den)
        m == num \div d
        r == num % d
    IN IF 2 * r > d \/ (2 * r = d /\ m % 2 = 1)
       THEN (m + 1) * Ulp(num \div den)
       ELSE m * Ulp(num \div den)

\* floor of the real square root, one bit at a time
RECURSIVE SqrtBits(_, _, _)
SqrtBits(x, r, b) ==
    IF b = 0 THEN r
    ELSE IF (r + b) * (r + b) <= x THEN SqrtBits(x, r + b, b \div 2)
         ELSE SqrtBits(x, r, b \div 2)

\* the element of a one-element set: { e(v) : v \in {x} } has x worked out
\* once, however often e uses v
The(S) == CHOOSE v \in S : TRUE

\* the float nearest to the real root of x, r being the floor of that root
SqrtNearest(x, r) ==
    LET u == Ulp(r)
        lower == (r \div u) * u
    IN IF u = 1
       THEN IF x > r * r + r THEN r + 1 ELSE r
       ELSE LET mid == lower + (u \div 2)
            IN IF x > mid * mid \/ (x = mid * mid /\ (lower \div u) % 2 = 1)
               THEN lower + u
               ELSE lower

\* math.sqrt
Sqrt(x) == The({ The({ SqrtNearest(v, r) : r \in {SqrtBits(v, 0, 2 ^ 14)} }) : v \in {x} })

\* ------------------------------------------------------- sample blocks
\* indata as delivered for channels=1: a sequence of frames, one sample each.
Silent == << <<Float(0)>>, <<Float(0)>> >>
AtThreshold == << <<Float(5)>>, <<Float(5)>> >>
LoudFlat == << <<Float(20)>>, <<Float(20)>> >>
LoudAlternating == << <<Float(100)>>, <<Float(-100)>> >>
Blocks == { Silent, AtThreshold, LoudFlat, LoudAlternating }

\* data = [sample[0] ... for sample in data]
FirstChannel(indata) == [i \in 1..Len(indata) |-> indata[i][1]]

\* sum(sample * sample for sample in data): each square and each partial
\* sum is rounded, the samples taken from left to right
RECURSIVE SumSquaresFrom(_, _)
SumSquaresFrom(acc, data) ==
    IF data = <<>> THEN acc
    ELSE The({ The({ SumSquaresFrom(sum, rest) : sum \in {Round(acc + square, 1)} }) :
                 square \in {Round(Head(data) * Head(data), 1)}, rest \in {Tail(data)} })
SumSquares(data) == SumSquaresFrom(0, data)

\* the mean of the samples in place of the root of the mean square
RECURSIVE Sum(_)
Sum(data) == IF data = <<>> THEN 0 ELSE Head(data) + Sum(Tail(data))
calculate_mean(audio_data) ==
    IF audio_data = <<>> THEN 0
    ELSE The({ IF total >= 0 THEN Round(total, Len(audio_data))
               ELSE 0 - Round(0 - total, Len(audio_data)) :
                 total \in {Sum(FirstChannel(audio_data))} })
\* the root of the sum of squares, not divided by len(data)
calculate_rms_of_sum(audio_data) ==
    IF audio_data = <<>> THEN 0
    ELSE The({ Sqrt(sum_squares) : sum_squares \in {SumSquares(FirstChannel(audio_data))} })
calculate_rms(audio_data) ==
    IF audio_data = <<>> THEN 0
    ELSE The({ The({ Sqrt(mean_square) :
                       mean_square \in {Round(sum_squares, Len(data))} }) :
                 data \in {FirstChannel(audio_data)},
                 sum_squares \in {SumSquares(FirstChannel(audio_data))} })

RECURSIVE SumChanges(_)
SumChanges(data) == IF Len(data) < 2 THEN 0
                    ELSE Abs(data[2] - data[1]) + SumChanges(Tail(data))

\* the comparisons of lines 251-259 written with <=
analyze_frequency_bands_inclusive(audio_data) ==
    IF audio_data = <<>> THEN 0
    ELSE LET data == FirstChannel(audio_data)
             n == Len(data) - 1
             s == SumChanges(data)
         IN IF Len(data) < 2 THEN 0
            ELSE IF s <= Float(1) * n THEN 0
            ELSE IF s <= Float(2) * n THEN 1
            ELSE IF s <= Float(3) * n THEN 2
            ELSE IF s <= Float(4) * n THEN 3
            ELSE IF s <= Float(5) * n THEN 4
            ELSE 5
\* a classifier that answers -1, no band, where the program answers 0: for
\* a block it cannot index and for a block of fewer than two samples
analyze_frequency_bands_no_band(audio_data) ==
    IF audio_data = <<>> THEN -1
    ELSE LET data == FirstChannel(audio_data)
             n == Len(data) - 1
             s == SumChanges(data)
         IN IF Len(data) < 2 THEN -1
            ELSE IF s < Float(1) * n THEN 0
            ELSE IF s < Float(2) * n THEN 1
            ELSE IF s < Float(3) * n THEN 2
            ELSE IF s < Float(4) * n THEN 3
            ELSE IF s < Float(5) * n THEN 4
            ELSE 5
\* avg_change = sum / (n-1) compared with 0.01 .. 0.05
analyze_frequency_bands(audio_data) ==
    IF audio_data = <<>> THEN 0          \* data[0] raises, except returns 0
    ELSE LET data == FirstChannel(audio_data)
             n == Len(data) - 1
             s == SumChanges(data)
         IN IF Len(data) < 2 THEN 0
            ELSE IF s < Float(1) * n THEN 0
            ELSE IF s < Float(2) * n THEN 1
            ELSE IF s < Float(3) * n THEN 2
            ELSE IF s < Float(4) * n THEN 3
            ELSE IF s < Float(5) * n THEN 4
            ELSE 5

\* line 280 without its lower bound: colors[band_index] then counts a
\* negative index from the end of the list
get_color_for_frequency_band_from_end(band_index, rnd) ==
    LET colors == <<RED, ORANGE, YELLOW, GREEN, BLUE, VIOLET>>
    IN IF 0 - Len(colors) <= band_index /\ band_index < Len(colors)
       THEN colors[IF band_index >= 0 THEN band_index + 1
                   ELSE Len(colors) + band_index + 1]
       ELSE rnd
\* rnd stands for the value the random draw of the else branch returns
get_color_for_frequency_band(band_index, rnd) ==
    LET colors == <<RED, ORANGE, YELLOW, GREEN, BLUE, VIOLET>>
    IN IF 0 <= band_index /\ band_index < Len(colors)
       THEN colors[band_index + 1]
       ELSE rnd

\* int(x) of a quotient num/den with den > 0: truncation towards zero
IntDiv(num, den) == IF num >= 0 THEN num \div den ELSE -((-num) \div den)

\* Effect.clamp_brightness: int(channel * max_brightness)
clamp_brightness(color, max_brightness) ==
    [i \in 1..3 |-> IntDiv(color[i] * max_brightness, 100)]

\* ------------------------------------------------- audio backend (sounddevice)
\* One entry of sd.query_devices(): its input channel count and whether its
\* name contains 'mix', 'stereo' or 'loopback'.
Mic == [max_inputs |-> 1, loopback |-> FALSE]
Speakers == [max_inputs |-> 0, loopback |-> FALSE]
StereoMix == [max_inputs |-> 2, loopback |-> TRUE]
\* an output-only endpoint whose name contains 'mix'
MixOut == [max_inputs |-> 0, loopback |-> TRUE]
DeviceLists == { <<>>, <<Speakers>>, <<Speakers, Mic>>, <<Mic, StereoMix>>,
                 <<MixOut, Mic>> }
\* sd.default.device[0]; -1 when the host has no default input
DefaultDevices == { -1, 0, 1 }
\* what sd.query_devices() and sd.default.device report on one host
Backends == [devices : DeviceLists, default_device : DefaultDevices]

\* devices[i] of a Python sequence, negative indices counted from the end
PyIndexable(devices, i) == -Len(devices) <= i /\ i < Len(devices)
PyIndex(devices, i) == IF i >= 0 THEN devices[i + 1] ELSE devices[Len(devices) + i + 1]

\* line 154 in two readings: by name alone, and the program's
IsLoopbackName(d) == d.loopback
IsLoopbackInput(d) == d.max_inputs > 0 /\ d.loopback
HasInputs(d) == d.max_inputs > 0

\* for i, device in enumerate(devices): the first index (0-based) of the
\* positions in hits, NoDevice when there is none
FirstIndex(hits) ==
    IF hits = {} THEN NoDevice
    ELSE (CHOOSE i \in hits : \A j \in hits : i <= j) - 1

get_loopback_device(devices) ==
    FirstIndex({i \in 1..Len(devices) : IsLoopbackInput(devices[i])})

get_default_input_device(devices, default_device) ==
    IF default_device < Len(devices)
       /\ PyIndexable(devices, default_device)
       /\ PyIndex(devices, default_device).max_inputs > 0
    THEN default_device
    ELSE FirstIndex({i \in 1..Len(devices) : HasInputs(devices[i])})

\* the device start() settles on before it validates it (lines 352-365)
ResolveDevice(opts, devices, default_device) ==
    IF opts.audio_device # NoDevice THEN opts.audio_device
    ELSE IF opts.mode = "microphone"
         THEN get_default_input_device(devices, default_device)
         ELSE IF get_loopback_device(devices) # NoDevice
              THEN get_loopback_device(devices)
              ELSE get_default_input_device(devices, default_device)

\* the checks of lines 380-415: the index is in range and has inputs
DeviceUsable(devices, device) ==
    /\ device < Len(devices)
    /\ PyIndexable(devices, device)
    /\ PyIndex(devices, device).max_inputs > 0

\* ------------------------------------------------------------------ state
VARIABLES
    options,          \* AudioOptions, fixed after construction
    now,              \* time.time()
    stream,           \* self.stream: "None", "opened", "active", "stopped", "closed"
    running,          \* self.running
    peak_detected, peak_start_time, fade_start_time, is_fading,
    current_color, target_color,
    lock,             \* self.lock: "free" or the thread holding it
    cb_pc, cb,        \* position and locals of _audio_callback
    cb_pre,           \* PeakFadeState as the callback found it (history)
    committed_color,  \* current_color when the lock was last released by a callback (history)
    prev_time,        \* current_time of the previous processed block (history)
    pc,               \* position of the thread in Effect.run() and of another
                      \* thread that calls stop() or stop_effect()
    loop_color,       \* the colour loop() read and is transmitting
    device_color,     \* colour last transmitted to the target devices
    fed,              \* blocks a scripted sample source has delivered
    backend,          \* the host's device table and default input index
    device,           \* the device start() resolved (line 367)
    probe             \* the last call of one of the pure helpers and what it returned

vars == <<options, now, stream, running, peak_detected, peak_start_time,
          fade_start_time, is_fading, current_color, target_color, lock,
          cb_pc, cb, cb_pre, committed_color, prev_time, pc, loop_color,
          device_color, fed, backend, device, probe>>

fade_vars == <<peak_detected, peak_start_time, fade_start_time, is_fading,
               current_color, target_color>>
callback_vars == <<cb_pc, cb, cb_pre, committed_color, prev_time>>
main_vars == <<pc, loop_color, running>>

PeakFadeState == [peak_detected |-> peak_detected, peak_start_time |-> peak_start_time,
                  fade_start_time |-> fade_start_time, is_fading |-> is_fading,
                  current_color |-> current_color, target_color |-> target_color]

Modes == {"auto", "microphone", "loopback"}

\* locals of a callback that is not running, and the history value outside
\* the critical section
NoCall == [indata |-> <<>>, status |-> 0, rms |-> 0, current_time |-> 0,
           picked |-> NoColor]
NoState == [peak_detected |-> FALSE, peak_start_time |-> 0, fade_start_time |-> 0,
            is_fading |-> FALSE, current_color |-> BLACK, target_color |-> BLACK]

\* AudioOptions(...) on the model's scale: threshold 0.05, durations in ticks
AudioOptions(mode, peak_duration, fade_duration) ==
    [mode |-> mode, audio_device |-> NoDevice, peak_threshold |-> Float(5),
     peak_duration |-> peak_duration, fade_duration |-> fade_duration,
     max_brightness |-> 100]

\* no helper has been called on its own
NoProbe == [fn |-> "none", block |-> <<>>, band_index |-> 0, rnd |-> BLACK,
            value |-> 0, color |-> BLACK]

\* Effect.__init__ and AudioEffect.__init__
Construct(opts) ==
    /\ options = opts
    /\ now = 0
    /\ stream = "None"
    /\ running = FALSE
    /\ peak_detected = FALSE
    /\ peak_start_time = 0
    /\ current_color = BLACK
    /\ target_color = BLACK
    /\ fade_start_time = 0
    /\ is_fading = FALSE
    /\ lock = "free"
    /\ cb_pc = "idle"
    /\ cb = NoCall
    /\ cb_pre = NoState
    /\ committed_color = BLACK
    /\ prev_time = 0
    /\ pc = [run |-> "run", ext |-> "idle"]
    /\ loop_color = NoColor
    /\ device_color = NoColor
    /\ fed = 0
    /\ device = NoDevice

\* --------------------------------------------------------------- the clock
\* time.time() advances; it is the wall clock, so it can also be set back
Tick(limit) ==
    /\ now < limit
    /\ now' = now + 1
    /\ UNCHANGED <<options, backend, probe, device, fed, stream, fade_vars, lock, callback_vars, main_vars, device_color>>

ClockSetBack ==
    /\ now > 0
    /\ now' = now - 1
    /\ UNCHANGED <<options, backend, probe, device, fed, stream, fade_vars, lock, callback_vars, main_vars, device_color>>

\* ------------------------------------------------------------ Effect.run()
\* run(): self.running = True, then self.start()
Run ==
    /\ pc["run"] = "run"
    /\ running' = TRUE
    /\ pc' = [pc EXCEPT !["run"] = "start"]
    /\ UNCHANGED <<options, backend, probe, device, fed, now, stream, fade_vars, lock, callback_vars,
                   loop_color, device_color>>

\* AudioEffect.start().  devices and default_device are what the backend
\* reports; opened says whether sd.InputStream(...) and stream.start() succeed.
Start(devices, default_device, opened) ==
    /\ pc["run"] = "start"
    /\ pc' = [pc EXCEPT !["run"] = "while"]
    /\ device' = ResolveDevice(options, devices, default_device)
    /\ IF device' = NoDevice
       THEN UNCHANGED <<running, stream>>
       ELSE IF ~DeviceUsable(devices, device')
       THEN UNCHANGED <<running, stream>>
       ELSE CASE opened = "ok" -> running' = TRUE /\ stream' = "active"
              [] opened = "open_raises" -> running' = FALSE /\ UNCHANGED stream
              [] opened = "start_raises" -> running' = FALSE /\ stream' = "opened"
    /\ UNCHANGED <<options, backend, probe, fed, now, fade_vars, lock, callback_vars, loop_color,
                   device_color>>

\* --------------------------------------------------- _audio_callback
\* the backend delivers one block with its status flag (line 287)
Invoke(indata, status) ==
    /\ stream = "active"
    /\ cb_pc = "idle"
    /\ cb_pc' = "entered"
    /\ cb' = [NoCall EXCEPT !.indata = indata, !.status = status]
    /\ UNCHANGED <<options, backend, probe, device, stream, fade_vars, lock, cb_pre, committed_color,
                   prev_time, main_vars, device_color>>

AudioCallbackInvoke(indata, status) ==
    /\ Invoke(indata, status)
    /\ UNCHANGED <<now, fed>>

\* lines 293-298 without the status check of lines 289-291
AudioCallbackBeginAnyStatus ==
    /\ cb_pc = "entered"
    /\ cb_pc' = "lock"
    /\ cb' = [cb EXCEPT !.rms = calculate_rms(cb.indata), !.current_time = now]
    /\ UNCHANGED <<options, backend, probe, device, fed, now, stream, fade_vars, lock, cb_pre, committed_color,
                   prev_time, main_vars, device_color>>
\* lines 289-298: drop the block on a status flag, else rms and time.time()
AudioCallbackBegin ==
    /\ cb_pc = "entered"
    /\ IF cb.status # 0
       THEN cb_pc' = "idle" /\ cb' = NoCall
       ELSE /\ cb_pc' = "lock"
            /\ cb' = [cb EXCEPT !.rms = calculate_rms(cb.indata), !.current_time = now]
    /\ UNCHANGED <<options, backend, probe, device, fed, now, stream, fade_vars, lock, cb_pre, committed_color,
                   prev_time, main_vars, device_color>>

\* line 300 entered without waiting for the lock
AudioCallbackAcquireUnlocked ==
    /\ cb_pc = "lock"
    /\ lock' = "callback"
    /\ cb_pc' = "peak"
    /\ cb_pre' = PeakFadeState
    /\ UNCHANGED <<options, backend, probe, device, fed, now, stream, fade_vars, cb, committed_color,
                   prev_time, main_vars, device_color>>
\* line 300: with self.lock
AudioCallbackAcquire ==
    /\ cb_pc = "lock"
    /\ lock = "free"
    /\ lock' = "callback"
    /\ cb_pc' = "peak"
    /\ cb_pre' = PeakFadeState
    /\ UNCHANGED <<options, backend, probe, device, fed, now, stream, fade_vars, cb, committed_color,
                   prev_time, main_vars, device_color>>

\* line 302 in three readings: the hold not consulted, a fade also
\* consulted, and the program's
PeakStartsAtThreshold(rms, threshold) == rms >= threshold /\ ~peak_detected
PeakStartsRetrigger(rms, threshold) == rms > threshold
PeakStartsUnlessBusy(rms, threshold) == rms > threshold /\ ~peak_detected /\ ~is_fading
PeakStarts(rms, threshold) == rms > threshold /\ ~peak_detected

\* lines 323-324: the hold has run out
PeakExpiredAtDeadline(current_time, start, duration) == current_time - start >= duration
PeakExpired(current_time, start, duration) == current_time - start > duration

\* the if / elif with the fade dated from the end of the hold,
\* peak_start_time + peak_duration, instead of from the callback's timestamp
AudioCallbackPeakFromDeadline ==
    /\ cb_pc = "peak"
    /\ IF PeakStarts(cb.rms, options.peak_threshold)
       THEN /\ peak_detected' = TRUE
            /\ peak_start_time' = cb.current_time
            /\ cb_pc' = "color"
            /\ UNCHANGED <<fade_start_time, is_fading>>
       ELSE IF peak_detected
               /\ PeakExpired(cb.current_time, peak_start_time, options.peak_duration)
       THEN /\ peak_detected' = FALSE
            /\ fade_start_time' = peak_start_time + options.peak_duration
            /\ is_fading' = TRUE
            /\ cb_pc' = "fade"
            /\ UNCHANGED peak_start_time
       ELSE /\ cb_pc' = "fade"
            /\ UNCHANGED <<peak_detected, peak_start_time, fade_start_time, is_fading>>
    /\ UNCHANGED <<options, backend, probe, device, fed, now, stream, current_color, target_color, lock, cb,
                   cb_pre, committed_color, prev_time, main_vars, device_color>>
\* lines 302-304 and 323-327: the if / elif of the peak detection
AudioCallbackPeak ==
    /\ cb_pc = "peak"
    /\ IF PeakStarts(cb.rms, options.peak_threshold)
       THEN /\ peak_detected' = TRUE
            /\ peak_start_time' = cb.current_time
            /\ cb_pc' = "color"
            /\ UNCHANGED <<fade_start_time, is_fading>>
       ELSE IF peak_detected
               /\ PeakExpired(cb.current_time, peak_start_time, options.peak_duration)
       THEN /\ peak_detected' = FALSE
            /\ fade_start_time' = cb.current_time
            /\ is_fading' = TRUE
            /\ cb_pc' = "fade"
            /\ UNCHANGED peak_start_time
       ELSE /\ cb_pc' = "fade"
            /\ UNCHANGED <<peak_detected, peak_start_time, fade_start_time, is_fading>>
    /\ UNCHANGED <<options, backend, probe, device, fed, now, stream, current_color, target_color, lock, cb,
                   cb_pre, committed_color, prev_time, main_vars, device_color>>

\* the strategy taken from the device that start() resolved: band-driven
\* whenever the stream reads a loopback input
AudioCallbackColorByDevice ==
    /\ cb_pc = "color"
    /\ \E rnd \in RandomColors :
         target_color' =
             IF device # NoDevice /\ PyIndexable(backend.devices, device)
                /\ IsLoopbackInput(PyIndex(backend.devices, device))
             THEN get_color_for_frequency_band(analyze_frequency_bands(cb.indata), rnd)
             ELSE rnd
    /\ cb' = [cb EXCEPT !.picked = target_color']
    /\ cb_pc' = "show"
    /\ UNCHANGED <<options, backend, probe, device, fed, now, stream, peak_detected, peak_start_time,
                   fade_start_time, is_fading, current_color, lock, cb_pre,
                   committed_color, prev_time, main_vars, device_color>>
\* lines 307-317: band-driven colour in loopback mode, random otherwise
AudioCallbackColor ==
    /\ cb_pc = "color"
    /\ \E rnd \in RandomColors :
         target_color' =
             IF options.mode = "loopback"
             THEN get_color_for_frequency_band(analyze_frequency_bands(cb.indata), rnd)
             ELSE rnd
    /\ cb' = [cb EXCEPT !.picked = target_color']
    /\ cb_pc' = "show"
    /\ UNCHANGED <<options, backend, probe, device, fed, now, stream, peak_detected, peak_start_time,
                   fade_start_time, is_fading, current_color, lock, cb_pre,
                   committed_color, prev_time, main_vars, device_color>>

\* lines 319-320 with the assignment of line 319 left out
AudioCallbackShowLag ==
    /\ cb_pc = "show"
    /\ is_fading' = FALSE
    /\ cb_pc' = "fade"
    /\ UNCHANGED <<options, backend, probe, device, fed, now, stream, peak_detected, peak_start_time,
                   fade_start_time, current_color, target_color, lock, cb, cb_pre,
                   committed_color, prev_time, main_vars, device_color>>

\* lines 319-320 with the assignment of line 320 left out
AudioCallbackShowKeepsFade ==
    /\ cb_pc = "show"
    /\ current_color' = target_color
    /\ cb_pc' = "fade"
    /\ UNCHANGED <<options, backend, probe, device, fed, now, stream, peak_detected, peak_start_time,
                   fade_start_time, is_fading, target_color, lock, cb, cb_pre,
                   committed_color, prev_time, main_vars, device_color>>

\* lines 319-320
AudioCallbackShow ==
    /\ cb_pc = "show"
    /\ current_color' = target_color
    /\ is_fading' = FALSE
    /\ cb_pc' = "fade"
    /\ UNCHANGED <<options, backend, probe, device, fed, now, stream, peak_detected, peak_start_time,
                   fade_start_time, target_color, lock, cb, cb_pre,
                   committed_color, prev_time, main_vars, device_color>>

\* line 332: fade_progress >= 1.0, with fade_progress = elapsed / fade_duration
FadeDoneExactly(elapsed, fade_duration) == elapsed = fade_duration
FadeDoneAtOnce(elapsed, fade_duration) == elapsed >= 0
FadeDoneLate(elapsed, fade_duration) == elapsed > fade_duration
FadeDone(elapsed, fade_duration) == elapsed >= fade_duration

\* lines 337-341: fade_factor = 1.0 - fade_progress applied to one channel,
\* int(...) of the product
FadeChannelUp(channel, elapsed, fade_duration) ==
    IntDiv(channel * (fade_duration + elapsed), fade_duration)
FadeChannel(channel, elapsed, fade_duration) ==
    IntDiv(channel * (fade_duration - elapsed), fade_duration)

\* the fade step with the assignment of line 333 left out: a finished fade
\* clears the flag and keeps the colour it had
AudioCallbackFadeKeepsColor ==
    /\ cb_pc = "fade"
    /\ IF is_fading /\ options.fade_duration = 0
       THEN cb_pc' = "except" /\ UNCHANGED <<current_color, is_fading>>
       ELSE /\ cb_pc' = "exit"
            /\ IF is_fading
               THEN LET elapsed == cb.current_time - fade_start_time
                    IN IF FadeDone(elapsed, options.fade_duration)
                       THEN is_fading' = FALSE /\ UNCHANGED current_color
                       ELSE /\ current_color' =
                                 [i \in 1..3 |-> FadeChannel(target_color[i], elapsed,
                                                             options.fade_duration)]
                            /\ UNCHANGED is_fading
               ELSE UNCHANGED <<current_color, is_fading>>
    /\ UNCHANGED <<options, backend, probe, device, fed, now, stream, peak_detected, peak_start_time,
                   fade_start_time, target_color, lock, cb, cb_pre,
                   committed_color, prev_time, main_vars, device_color>>
\* lines 330-342: the fade step.  elapsed / fade_duration (line 331) raises
\* ZeroDivisionError when fade_duration is 0: control leaves the try block
\* for the handler of lines 344-347 with the fields as they are by then.
AudioCallbackFade ==
    /\ cb_pc = "fade"
    /\ IF is_fading /\ options.fade_duration = 0
       THEN cb_pc' = "except" /\ UNCHANGED <<current_color, is_fading>>
       ELSE /\ cb_pc' = "exit"
            /\ IF is_fading
               THEN LET elapsed == cb.current_time - fade_start_time
                    IN IF FadeDone(elapsed, options.fade_duration)
                       THEN current_color' = BLACK /\ is_fading' = FALSE
                       ELSE /\ current_color' =
                                 [i \in 1..3 |-> FadeChannel(target_color[i], elapsed,
                                                             options.fade_duration)]
                            /\ UNCHANGED is_fading
               ELSE UNCHANGED <<current_color, is_fading>>
    /\ UNCHANGED <<options, backend, probe, device, fed, now, stream, peak_detected, peak_start_time,
                   fade_start_time, target_color, lock, cb, cb_pre,
                   committed_color, prev_time, main_vars, device_color>>

\* a callback that transmits its colour to the devices before it returns
AudioCallbackExitSends ==
    /\ cb_pc \in {"exit", "except"}
    /\ lock' = "free"
    /\ cb_pc' = "idle"
    /\ cb' = NoCall
    /\ cb_pre' = NoState
    /\ committed_color' = current_color
    /\ prev_time' = cb.current_time
    /\ device_color' = clamp_brightness(current_color, options.max_brightness)
    /\ UNCHANGED <<options, backend, probe, device, fed, now, stream, fade_vars, main_vars>>
\* the with block is left, normally or by the exception: the lock is released
\* and the callback returns (the handler only prints)
AudioCallbackExit ==
    /\ cb_pc \in {"exit", "except"}
    /\ lock' = "free"
    /\ cb_pc' = "idle"
    /\ cb' = NoCall
    /\ cb_pre' = NoState
    /\ committed_color' = current_color
    /\ prev_time' = cb.current_time
    /\ UNCHANGED <<options, backend, probe, device, fed, now, stream, fade_vars, main_vars, device_color>>

AudioCallbackSteps ==
    \/ AudioCallbackBegin
    \/ AudioCallbackAcquire
    \/ AudioCallbackPeak
    \/ AudioCallbackColor
    \/ AudioCallbackShow
    \/ AudioCallbackFade
    \/ AudioCallbackExit

AudioCallback ==
    \/ \E indata \in Blocks, status \in {0, 1} : AudioCallbackInvoke(indata, status)
    \/ AudioCallbackSteps

\* --------------------------------------------- state-machine specification
\* The capture side alone: run() has started the stream and blocks arrive
\* while the clock moves; the render loop takes no step.
\* a host without audio devices and one with a microphone and a loopback input
PlainBackends == { b \in Backends : /\ b.devices \in { <<>>, <<Mic, StereoMix>> }
                                    /\ b.default_device = 0 }

Init ==
    /\ \E mode \in Modes : Construct(AudioOptions(mode, 2, 3))
    /\ backend \in PlainBackends
    /\ probe = NoProbe

StartAny == \E opened \in {"ok", "open_raises", "start_raises"} :
                Start(backend.devices, backend.default_device, opened)

Next ==
    \/ Run
    \/ StartAny
    \/ AudioCallback
    \/ Tick(MaxTime)
    \/ ClockSetBack

Spec == Init /\ [][Next]_vars

\* ------------------------------------------------- Effect.run(): the loop
\* a while loop whose exit returns from run() without a finally clause
RunWhileNoFinally ==
    /\ pc["run"] = "while"
    /\ pc' = [pc EXCEPT !["run"] = IF running THEN "loop" ELSE "stopped"]
    /\ UNCHANGED <<options, backend, probe, device, fed, now, stream, fade_vars, lock, callback_vars,
                   loop_color, running, device_color>>
\* while self.running (line 119); the finally clause calls stop()
RunWhile ==
    /\ pc["run"] = "while"
    /\ pc' = [pc EXCEPT !["run"] = IF running THEN "loop" ELSE "stop"]
    /\ UNCHANGED <<options, backend, probe, device, fed, now, stream, fade_vars, lock, callback_vars,
                   loop_color, running, device_color>>

\* AudioEffect.loop() lines 436-437
LoopCheck ==
    /\ pc["run"] = "loop"
    /\ pc' = [pc EXCEPT !["run"] = IF ~running THEN "sleep" ELSE "loop_lock"]
    /\ UNCHANGED <<options, backend, probe, device, fed, now, stream, fade_vars, lock, callback_vars,
                   loop_color, running, device_color>>

\* line 439 without waiting for the lock
LoopAcquireUnlocked ==
    /\ pc["run"] = "loop_lock"
    /\ lock' = "loop"
    /\ loop_color' = current_color
    /\ pc' = [pc EXCEPT !["run"] = "loop_send"]
    /\ UNCHANGED <<options, backend, probe, device, fed, now, stream, fade_vars, callback_vars, running,
                   device_color>>

\* lines 439-440: with self.lock, then self.current_color is read as the
\* argument of set_all_target_devices_color
LoopAcquire ==
    /\ pc["run"] = "loop_lock"
    /\ lock = "free"
    /\ lock' = "loop"
    /\ loop_color' = current_color
    /\ pc' = [pc EXCEPT !["run"] = "loop_send"]
    /\ UNCHANGED <<options, backend, probe, device, fed, now, stream, fade_vars, callback_vars, running,
                   device_color>>

\* a loop() that shows the colour of the peak, not the colour of the moment
LoopSendTarget ==
    /\ pc["run"] = "loop_send"
    /\ device_color' = clamp_brightness(target_color, options.max_brightness)
    /\ pc' = [pc EXCEPT !["run"] = "loop_unlock"]
    /\ UNCHANGED <<options, backend, probe, device, fed, now, stream, fade_vars, lock, callback_vars,
                   loop_color, running>>
\* Effect.set_all_target_devices_color: the colour goes out to the devices
\* (called inside the with block of line 439)
LoopSend ==
    /\ pc["run"] = "loop_send"
    /\ device_color' = clamp_brightness(loop_color, options.max_brightness)
    /\ pc' = [pc EXCEPT !["run"] = "loop_unlock"]
    /\ UNCHANGED <<options, backend, probe, device, fed, now, stream, fade_vars, lock, callback_vars,
                   loop_color, running>>

\* the device call raises and the exception leaves loop() with the lock
\* still held
LoopSendRaisesHoldingLock ==
    /\ pc["run"] = "loop_send"
    /\ loop_color' = NoColor
    /\ pc' = [pc EXCEPT !["run"] = "stop"]
    /\ UNCHANGED <<options, backend, probe, device, fed, now, stream, fade_vars, lock, callback_vars,
                   running, device_color>>
\* the device call raises: the with block releases the lock and the
\* exception leaves loop() and the while loop of run() for its finally clause
LoopSendRaises ==
    /\ pc["run"] = "loop_send"
    /\ lock' = "free"
    /\ loop_color' = NoColor
    /\ pc' = [pc EXCEPT !["run"] = "stop"]
    /\ UNCHANGED <<options, backend, probe, device, fed, now, stream, fade_vars, callback_vars, running,
                   device_color>>

\* a loop() that blanks the colour it has shown
LoopReleaseClears ==
    /\ pc["run"] = "loop_unlock"
    /\ lock' = "free"
    /\ loop_color' = NoColor
    /\ current_color' = BLACK
    /\ pc' = [pc EXCEPT !["run"] = "sleep"]
    /\ UNCHANGED <<options, backend, probe, device, fed, now, stream, peak_detected, peak_start_time,
                   fade_start_time, is_fading, target_color, callback_vars, running,
                   device_color>>
\* end of the with block of loop()
LoopRelease ==
    /\ pc["run"] = "loop_unlock"
    /\ lock' = "free"
    /\ loop_color' = NoColor
    /\ pc' = [pc EXCEPT !["run"] = "sleep"]
    /\ UNCHANGED <<options, backend, probe, device, fed, now, stream, fade_vars, callback_vars, running,
                   device_color>>

\* time.sleep(self.options.sleep_s), line 121
RunSleep ==
    /\ pc["run"] = "sleep"
    /\ pc' = [pc EXCEPT !["run"] = "while"]
    /\ UNCHANGED <<options, backend, probe, device, fed, now, stream, fade_vars, lock, callback_vars,
                   loop_color, running, device_color>>

\* Ctrl-C while the main thread is inside the try block of run() (lines
\* 118-123): a with block in progress releases the lock, except
\* KeyboardInterrupt passes, and the finally clause calls stop()
LoopPositions == {"while", "loop", "loop_lock", "loop_send", "loop_unlock", "sleep"}
KeyboardInterrupt ==
    /\ pc["run"] \in LoopPositions
    /\ lock' = IF lock = "loop" THEN "free" ELSE lock
    /\ loop_color' = NoColor
    /\ pc' = [pc EXCEPT !["run"] = "stop"]
    /\ UNCHANGED <<options, backend, probe, device, fed, now, stream, fade_vars, callback_vars, running,
                   device_color>>

\* ------------------------------------------------------ AudioEffect.stop()
\* line 444
StopFlag(t) ==
    /\ pc[t] = "stop"
    /\ running' = FALSE
    /\ pc' = [pc EXCEPT ![t] = "stop_stream"]
    /\ UNCHANGED <<options, backend, probe, device, fed, now, stream, fade_vars, lock, callback_vars,
                   loop_color, device_color>>

\* lines 445-450.  outcome: both backend calls return, stream.stop() raises
\* (close() is then skipped), or stream.close() raises.
StopStream(t, outcome) ==
    /\ pc[t] = "stop_stream"
    /\ IF stream = "None"
       THEN UNCHANGED stream
       ELSE CASE outcome = "ok" -> stream' = "closed"
              [] outcome = "stop_raises" -> UNCHANGED stream
              [] outcome = "close_raises" ->
                     stream' = IF stream = "closed" THEN "closed" ELSE "stopped"
    /\ pc' = [pc EXCEPT ![t] = "stop_off"]
    /\ UNCHANGED <<options, backend, probe, device, fed, now, fade_vars, lock, callback_vars, loop_color,
                   running, device_color>>

\* line 452 sending the colour of the moment instead
StopOffCurrent(t) ==
    /\ pc[t] = "stop_off"
    /\ device_color' = clamp_brightness(current_color, options.max_brightness)
    /\ pc' = [pc EXCEPT ![t] = "stopped"]
    /\ UNCHANGED <<options, backend, probe, device, fed, now, stream, fade_vars, lock, callback_vars,
                   loop_color, running>>
\* line 452: Effect.turn_off_target_devices, after which stop() returns
StopOff(t) ==
    /\ pc[t] = "stop_off"
    /\ device_color' = clamp_brightness(BLACK, options.max_brightness)
    /\ pc' = [pc EXCEPT ![t] = "stopped"]
    /\ UNCHANGED <<options, backend, probe, device, fed, now, stream, fade_vars, lock, callback_vars,
                   loop_color, running>>

Stop(t) ==
    \/ StopFlag(t)
    \/ \E outcome \in {"ok", "stop_raises", "close_raises"} : StopStream(t, outcome)
    \/ StopOff(t)

\* another thread, once start() has returned: Effect.stop_effect() (line 131)
\* or a call of stop()
Started == pc["run"] \notin {"run", "start"}

StopEffect ==
    /\ pc["ext"] = "idle"
    /\ Started
    /\ running' = FALSE
    /\ pc' = [pc EXCEPT !["ext"] = "asked"]
    /\ UNCHANGED <<options, backend, probe, device, fed, now, stream, fade_vars, lock, callback_vars,
                   loop_color, device_color>>

CallStop ==
    /\ pc["ext"] = "idle"
    /\ Started
    /\ pc' = [pc EXCEPT !["ext"] = "stop"]
    /\ UNCHANGED <<options, backend, probe, device, fed, now, stream, fade_vars, lock, callback_vars,
                   loop_color, running, device_color>>

\* ---------------------------------------------------- threaded specification
\* The render loop, the audio callback and a stopping thread interleaved.
PipelineBlocks == { Silent, LoudFlat }
PipelineInit ==
    /\ \E mode \in {"auto", "loopback"} : Construct(AudioOptions(mode, 1, 2))
    /\ backend \in PlainBackends
    /\ probe = NoProbe

PipelineCallback ==
    \/ \E indata \in PipelineBlocks, status \in {0, 1} : AudioCallbackInvoke(indata, status)
    \/ AudioCallbackSteps

PipelineNext ==
    \/ Run
    \/ StartAny
    \/ RunWhile
    \/ LoopCheck
    \/ LoopAcquire
    \/ LoopSend
    \/ LoopSendRaises
    \/ LoopRelease
    \/ RunSleep
    \/ Stop("run")
    \/ StopEffect
    \/ CallStop
    \/ Stop("ext")
    \/ PipelineCallback
    \/ Tick(MaxClock)

PipelineSpec == PipelineInit /\ [][PipelineNext]_vars

\* ------------------------------------------------- scenario specification
\* threshold 0.05, peak_duration 0.1 s, fade_duration 0.2 s; the sample
\* source delivers four blocks at 0, 0.05, 0.11 and 0.31 s: the first two
\* with RMS 0.2, the third arbitrary, the fourth not above the threshold.
ScenarioTimes == <<0, 5, 11, 31>>
LoudSwing == << <<Float(20)>>, <<Float(-20)>> >>
ScenarioBlocks(k) ==
    IF k <= 2 THEN {b \in Blocks \cup {LoudSwing} : calculate_rms(b) = Float(20)}
    ELSE IF k = 3 THEN Blocks
    ELSE {b \in Blocks : calculate_rms(b) <= Float(5)}

ScenarioInit ==
    /\ \E mode \in Modes : Construct(AudioOptions(mode, 10, 20))
    /\ backend \in PlainBackends
    /\ probe = NoProbe

ScenarioFeed ==
    /\ fed < Len(ScenarioTimes)
    /\ fed' = fed + 1
    /\ now' = ScenarioTimes[fed + 1]
    /\ \E indata \in ScenarioBlocks(fed + 1) : Invoke(indata, 0)

ScenarioNext ==
    \/ Run
    \/ StartAny
    \/ ScenarioFeed
    \/ AudioCallbackSteps

ScenarioSpec == ScenarioInit /\ [][ScenarioNext]_vars

\* ------------------------------------------------- device resolution alone
\* run() on any host and with any configured device index: start() resolves
\* and validates the device, the render loop runs, run() stops the effect.
DeviceChoices == {NoDevice, 0, 1, 2}

StartInit ==
    /\ \E mode \in Modes, audio_device \in DeviceChoices :
           Construct([AudioOptions(mode, 1, 2) EXCEPT !.audio_device = audio_device])
    /\ backend \in Backends
    /\ probe = NoProbe

StartNext ==
    \/ Run
    \/ StartAny
    \/ RunWhile
    \/ LoopCheck
    \/ LoopAcquire
    \/ LoopSend
    \/ LoopSendRaises
    \/ LoopRelease
    \/ RunSleep
    \/ Stop("run")

StartSpec == StartInit /\ [][StartNext]_vars

\* ------------------------------------------------- run() from call to return
\* run() on any host with any configured device, the ways out of its loop
\* included: stop_effect() from another thread, Ctrl-C, an exception of loop()
RunInit == StartInit

RunNext ==
    \/ Run
    \/ StartAny
    \/ RunWhile
    \/ LoopCheck
    \/ LoopAcquire
    \/ LoopSend
    \/ LoopSendRaises
    \/ LoopRelease
    \/ RunSleep
    \/ KeyboardInterrupt
    \/ StopEffect
    \/ Stop("run")

RunSpec == RunInit /\ [][RunNext]_vars

\* ------------------------------------------------- the lock under scheduling
\* The callback and the render loop contend for the lock, with a fade duration
\* that makes the callback raise (0) or not (1).  Each thread that can take
\* a step takes it in the end; the lock is handed to a thread that waits for
\* it once it is free again and again: between two iterations the loop
\* sleeps, between two blocks the callback is not running.
LockInit ==
    /\ \E fade_duration \in {0, 1} : Construct(AudioOptions("auto", 0, fade_duration))
    /\ backend \in PlainBackends
    /\ probe = NoProbe

LockCallback ==
    \/ \E indata \in PipelineBlocks : AudioCallbackInvoke(indata, 0)
    \/ AudioCallbackSteps

LockNext ==
    \/ Run
    \/ StartAny
    \/ RunWhile
    \/ LoopCheck
    \/ LoopAcquire
    \/ LoopSend
    \/ LoopSendRaises
    \/ LoopRelease
    \/ RunSleep
    \/ Stop("run")
    \/ LockCallback
    \/ Tick(MaxClock - 2)

LockSpec ==
    /\ LockInit
    /\ [][LockNext]_vars
    /\ WF_vars(AudioCallbackSteps)
    /\ WF_vars(LoopSend \/ LoopSendRaises \/ LoopRelease)
    /\ SF_vars(AudioCallbackAcquire)
    /\ SF_vars(LoopAcquire)

\* ------------------------------------------------- a fade duration of zero
\* --fade-duration 0 is accepted by the argument parser (lines 37-38)
FaultInit ==
    /\ \E mode \in Modes : Construct(AudioOptions(mode, 1, 0))
    /\ backend \in PlainBackends
    /\ probe = NoProbe

FaultNext ==
    \/ Run
    \/ StartAny
    \/ AudioCallback
    \/ Tick(MaxClock)

FaultSpec == FaultInit /\ [][FaultNext]_vars

\* ------------------------------------------------- blocks that keep arriving
\* The backend delivers block after block, each 1 or 2 ticks after the one
\* before; blocks may be loud up to time LoudBy and are quiet afterwards.
\* With peak_duration 1 and fade_duration 2 a peak registered at LoudBy has
\* faded out 6 ticks later at the latest.
LoudBy == MaxDecay - 6
QuietBlocks == {b \in Blocks : calculate_rms(b) <= Float(5)}

DecayInit ==
    /\ \E mode \in Modes : Construct(AudioOptions(mode, 1, 2))
    /\ backend \in PlainBackends
    /\ probe = NoProbe

DecayFeed ==
    /\ \E d \in {1, 2} :
         /\ now + d <= MaxDecay
         /\ now' = now + d
         /\ \E indata \in (IF now + d <= LoudBy THEN Blocks ELSE QuietBlocks) :
               Invoke(indata, 0)
    /\ fed' = fed + 1

DecayNext ==
    \/ Run
    \/ StartAny
    \/ DecayFeed
    \/ AudioCallbackSteps

\* the backend's thread is scheduled: a block that can be delivered is
\* delivered, a callback that can take a step takes it
DecaySpec ==
    /\ DecayInit /\ [][DecayNext]_vars
    /\ WF_vars(DecayFeed)
    /\ WF_vars(AudioCallbackSteps)

\* ------------------------------------------------- the helpers on their own
\* _calculate_rms, _analyze_frequency_bands and _get_color_for_frequency_band
\* called with any block of at most MaxLen frames and any band index.
ProbeLevels == {-100, -7, 0, 1, 2, 3, 4, 5, 7, 20, 100}

ProbeBlocksOf(n) == [1..n -> {<<Float(h)>> : h \in ProbeLevels}]
ProbeBlocks == UNION {ProbeBlocksOf(n) : n \in 0..MaxLen}

BandIndices == (0 - MaxBand)..MaxBand

\* the arguments of the calls: a block, or a band index and the value the
\* random draw would return
Probes ==
    {[NoProbe EXCEPT !.block = audio_data] : audio_data \in ProbeBlocks}
    \cup {[NoProbe EXCEPT !.band_index = band_index, !.rnd = rnd] :
             band_index \in BandIndices, rnd \in RandomColors}

CalculateRms ==
    /\ probe' = [probe EXCEPT !.fn = "rms", !.value = calculate_rms(probe.block)]
    /\ UNCHANGED <<options, backend, device, fed, now, stream, running, fade_vars, lock,
                   callback_vars, pc, loop_color, device_color>>

AnalyzeFrequencyBands ==
    /\ probe' = [probe EXCEPT !.fn = "band",
                              !.value = analyze_frequency_bands(probe.block)]
    /\ UNCHANGED <<options, backend, device, fed, now, stream, running, fade_vars, lock,
                   callback_vars, pc, loop_color, device_color>>

GetColorForFrequencyBand ==
    /\ probe' = [probe EXCEPT !.fn = "color",
                              !.color = get_color_for_frequency_band(probe.band_index,
                                                                     probe.rnd)]
    /\ UNCHANGED <<options, backend, device, fed, now, stream, running, fade_vars, lock,
                   callback_vars, pc, loop_color, device_color>>

HelperInit ==
    /\ Construct(AudioOptions("loopback", 1, 2))
    /\ backend \in PlainBackends
    /\ probe \in Probes

HelperNext ==
    \/ CalculateRms
    \/ AnalyzeFrequencyBands
    \/ GetColorForFrequencyBand

HelperSpec == HelperInit /\ [][HelperNext]_vars

\* ======================================================= checked properties
IsIdle(s) == ~s.peak_detected /\ ~s.is_fading
IsPeaking(s) == s.peak_detected /\ ~s.is_fading
IsFading(s) == s.is_fading /\ ~s.peak_detected

\* the callback has finished its update and still holds the lock
CallbackUpdated == cb_pc = "exit"
ChannelLeq(c, d) == \A i \in 1..3 : c[i] <= d[i]

\* C1: a block above the threshold met in Idle leaves the state Peaking with
\* peak_start_time the block's timestamp and current_color the colour just
\* selected as target_color.
C1_PeakFromIdleIsImmediate ==
    (CallbackUpdated /\ IsIdle(cb_pre) /\ cb.rms > options.peak_threshold) =>
        /\ IsPeaking(PeakFadeState)
        /\ peak_start_time = cb.current_time
        /\ cb.picked # NoColor
        /\ target_color = cb.picked
        /\ current_color = target_color

C1_Witness ==
    /\ CallbackUpdated /\ IsIdle(cb_pre) /\ cb.rms > options.peak_threshold
    /\ cb.current_time > 0
    /\ peak_detected /\ current_color = cb.picked /\ cb.picked # BLACK

\* C2: a block met in Peaking no later than peak_duration after peak_start_time
\* leaves the state Peaking, whatever its RMS.
C2_PeakHeldForDuration ==
    (CallbackUpdated /\ IsPeaking(cb_pre)
       /\ cb.current_time - cb_pre.peak_start_time <= options.peak_duration) =>
        /\ IsPeaking(PeakFadeState)
        /\ peak_start_time = cb_pre.peak_start_time

C2_Witness ==
    /\ CallbackUpdated /\ IsPeaking(cb_pre)
    /\ cb.rms < options.peak_threshold
    /\ cb.current_time - cb_pre.peak_start_time = options.peak_duration
    /\ peak_detected

\* C3: a block not above the threshold met in Fading at or after
\* fade_start_time + fade_duration leaves the state Idle and the colour black.
C3_FadeEndsIdleBlack ==
    (CallbackUpdated /\ IsFading(cb_pre) /\ cb.rms <= options.peak_threshold
       /\ cb.current_time - cb_pre.fade_start_time >= options.fade_duration) =>
        /\ IsIdle(PeakFadeState)
        /\ current_color = BLACK

C3_Witness ==
    /\ CallbackUpdated /\ IsFading(cb_pre) /\ cb.rms <= options.peak_threshold
    /\ cb.current_time - cb_pre.fade_start_time = options.fade_duration
    /\ cb_pre.current_color # BLACK
    /\ current_color = BLACK /\ ~is_fading /\ ~peak_detected

\* C4: within a fade that no peak interrupts, a block whose timestamp is not
\* earlier than the previous block's leaves target_color as it was and every
\* channel of current_color at or above 0, no higher than it was before the
\* block, and no higher than the target channel if it was not before.
C4_FadeMonotone ==
    (CallbackUpdated /\ IsFading(cb_pre) /\ cb.rms <= options.peak_threshold
       /\ cb.current_time >= prev_time) =>
        /\ target_color = cb_pre.target_color
        /\ ChannelLeq(BLACK, current_color)
        /\ ChannelLeq(current_color, cb_pre.current_color)
        /\ (ChannelLeq(cb_pre.current_color, target_color)
              => ChannelLeq(current_color, target_color))

C4_Witness ==
    /\ CallbackUpdated /\ IsFading(cb_pre) /\ cb.rms <= options.peak_threshold
    /\ cb.current_time > prev_time
    /\ is_fading
    /\ current_color # BLACK
    /\ current_color # cb_pre.current_color
    /\ cb_pre.current_color # target_color

\* C5: a block above the threshold met in Fading leaves the state Peaking in
\* the same callback: new target_color, current_color equal to it at full
\* intensity, peak_start_time the block's timestamp, fading flag clear.
C5_PeakInterruptsFade ==
    (CallbackUpdated /\ IsFading(cb_pre) /\ cb.rms > options.peak_threshold) =>
        /\ IsPeaking(PeakFadeState)
        /\ peak_start_time = cb.current_time
        /\ cb.picked # NoColor
        /\ target_color = cb.picked
        /\ current_color = cb.picked

C5_Witness ==
    /\ CallbackUpdated /\ IsFading(cb_pre) /\ cb.rms > options.peak_threshold
    /\ cb_pre.current_color # cb_pre.target_color
    /\ cb_pre.current_color # BLACK
    /\ peak_detected /\ ~is_fading
    /\ current_color = cb.picked /\ cb.picked # BLACK
    /\ cb.picked # cb_pre.target_color

\* C6: with threshold 0.05, peak_duration 0.1 s and fade_duration 0.2 s, from
\* Idle: the block of RMS 0.2 at t = 0 gives Peaking with a colour C1, the
\* block of RMS 0.2 at t = 0.05 leaves Peaking with colour C1, the block at
\* t = 0.11 starts the fade, the block at t = 0.31 gives Idle and black.
ScenarioBlockDone(k) == fed = k /\ cb_pc = "exit"
C6_Scenario ==
    /\ ScenarioBlockDone(1) =>
          /\ IsIdle(cb_pre) /\ cb.current_time = 0 /\ cb.rms = Float(20)
          /\ IsPeaking(PeakFadeState)
          /\ current_color = cb.picked /\ target_color = cb.picked
    /\ ScenarioBlockDone(2) =>
          /\ IsPeaking(cb_pre) /\ cb.current_time = 5 /\ cb.rms = Float(20)
          /\ IsPeaking(PeakFadeState)
          /\ current_color = cb_pre.current_color
          /\ target_color = cb_pre.target_color
          /\ cb.picked = NoColor
    /\ ScenarioBlockDone(3) =>
          /\ IsPeaking(cb_pre) /\ cb.current_time = 11
          /\ IsFading(PeakFadeState)
          /\ fade_start_time = 11
    /\ ScenarioBlockDone(4) =>
          /\ IsFading(cb_pre) /\ cb.current_time = 31
          /\ IsIdle(PeakFadeState)
          /\ current_color = BLACK

C6_Witness ==
    /\ ScenarioBlockDone(4)
    /\ cb_pre.current_color # BLACK
    /\ IsIdle(PeakFadeState) /\ current_color = BLACK

\* C7: the colour loop() has read is the one current_color held when the
\* callback last left its critical section (black before the first), and no
\* callback is inside its critical section while loop() holds what it read.
InCriticalSection == cb_pc \in {"peak", "color", "show", "fade", "exit", "except"}
C7_SnapshotIsCommitted ==
    loop_color # NoColor =>
        /\ loop_color = committed_color
        /\ ~InCriticalSection

C7_Witness ==
    /\ pc["run"] = "loop_send"
    /\ loop_color # BLACK /\ loop_color # target_color
    /\ cb_pc = "lock" /\ cb.rms > options.peak_threshold

\* C8: the read of loop() never waits: whenever loop() is about to take the
\* lock it can do so, also while the callback is in its critical section.
C8_ReadNeverBlocks == pc["run"] = "loop_lock" => ENABLED LoopAcquire

\* C9: the lock is not held by loop() while the colour goes out to the devices.
C9_NoLockDuringDeviceIO == pc["run"] = "loop_send" => lock # "loop"

\* C10: no audio callback starts once a call of stop() has returned.
StopReturned == \E t \in {"run", "ext"} : pc[t] = "stopped"
CallbackStarts == cb_pc = "idle" /\ cb_pc' = "entered"
C10_NoCallbackAfterStop == [][StopReturned => ~CallbackStarts]_vars

\* C11: once stop() has returned, the peak flag and the fading flag are both
\* clear, whatever state the pipeline was in when stop() was called.
C11_StopLeavesIdle == StopReturned => IsIdle(PeakFadeState)

\* a step of stop() taken by thread t
StopStep(t) == pc[t] \in {"stop", "stop_stream", "stop_off"} /\ pc'[t] # pc[t]

\* C12 as stated: no step of stop() transmits a colour to the devices.
C12_StopSendsNothing ==
    [][\A t \in {"run", "ext"} : StopStep(t) => device_color' = device_color]_vars

\* C12: stop() transmits exactly one colour, Black, as its last step after
\* clearing running and closing the stream; no other step of stop() transmits.
C12_StopSendsBlack ==
    [][\A t \in {"run", "ext"} :
          StopStep(t) => IF pc[t] = "stop_off"
                         THEN device_color' = BLACK /\ pc'[t] = "stopped"
                         ELSE device_color' = device_color]_vars

\* stop() has returned having blacked out devices while the pipeline's colour is lit
C12_Witness ==
    /\ \E t \in {"run", "ext"} : pc[t] = "stopped"
    /\ device_color = BLACK
    /\ current_color # BLACK

\* C13: when start() returns without an active stream (no input-capable
\* device, an unusable one, or the backend refusing the stream), the effect
\* is not marked running.
C13_FailedStartNotRunning ==
    [][(pc["run"] = "start" /\ pc'["run"] = "while" /\ stream' # "active")
         => ~running']_vars

\* 0-based indices of the host's devices with input channels, those among
\* them whose name matches a mix pattern, and the least index of a set
InputIndices == {i \in 0..(Len(backend.devices) - 1) : backend.devices[i + 1].max_inputs > 0}
MixIndices == {i \in InputIndices : backend.devices[i + 1].loopback}
Least(S) == CHOOSE i \in S : \A j \in S : i <= j
FirstInput == IF InputIndices = {} THEN NoDevice ELSE Least(InputIndices)

\* C14 as stated: the device start() resolves is the configured index, else
\* in loopback mode the first mix-named input, else the first device with
\* input channels, else none.
C14_ResolutionOrder ==
    Started =>
        device = IF options.audio_device # NoDevice THEN options.audio_device
                 ELSE IF options.mode = "loopback" /\ MixIndices # {}
                      THEN Least(MixIndices)
                      ELSE FirstInput

\* the host's default input index names a device with input channels,
\* a negative index counting from the end of the table
DefaultHasInputs ==
    LET d == backend.default_device
        n == Len(backend.devices)
    IN \/ d \in InputIndices
       \/ d < 0 /\ (n + d) \in InputIndices

\* C14: the device start() resolves is the configured index; else in
\* loopback and auto mode the first mix-named input; else the host's default
\* input index when the device there has input channels; else the first
\* device with input channels; else none.  The search never settles on a
\* device without input channels.
C14_ResolutionOrderWithDefault ==
    Started =>
        /\ device = IF options.audio_device # NoDevice THEN options.audio_device
                    ELSE IF options.mode \in {"loopback", "auto"} /\ MixIndices # {}
                         THEN Least(MixIndices)
                         ELSE IF DefaultHasInputs THEN backend.default_device
                              ELSE FirstInput
        /\ (options.audio_device = NoDevice /\ device # NoDevice)
              => (device \in InputIndices
                  \/ (device < 0 /\ (Len(backend.devices) + device) \in InputIndices))

\* microphone mode settled on the host's default input although an earlier
\* device has input channels
C14_Witness ==
    /\ Started
    /\ options.audio_device = NoDevice
    /\ options.mode = "microphone"
    /\ backend.devices = <<Mic, StereoMix>>
    /\ device = 1
    /\ stream = "active"

\* C15: when an error is raised while a block is processed, every field of
\* PeakFadeState is as the callback found it.
C15_ErrorRestoresState == cb_pc = "except" => PeakFadeState = cb_pre

\* C16: a callback invoked with a non-zero status returns at once: it does
\* not take the lock and leaves every field of PeakFadeState unchanged.
C16_StatusDropsBlock ==
    [][(cb_pc = "entered" /\ cb.status # 0 /\ cb_pc' # cb_pc)
         => (cb_pc' = "idle" /\ UNCHANGED <<fade_vars, lock>>)]_vars

\* a flagged loud block has arrived while a hold is past its deadline
C16_Witness ==
    /\ cb_pc = "entered"
    /\ cb.status # 0
    /\ calculate_rms(cb.indata) > options.peak_threshold
    /\ IsPeaking(PeakFadeState)
    /\ now - peak_start_time > options.peak_duration

\* C17: every transmission of a colour to the devices is a step of a thread
\* in loop() or stop(), never a step of the audio callback.
C17_CallbackNeverSends ==
    [][device_color' # device_color
         => /\ UNCHANGED callback_vars
            /\ \E t \in {"run", "ext"} :
                  pc[t] \in {"loop_send", "stop_off"} /\ pc'[t] # pc[t]]_vars

\* the devices show a peak colour sent by loop() while a callback is in the
\* middle of its update
C17_Witness ==
    /\ device_color \notin {NoColor, BLACK}
    /\ InCriticalSection
    /\ PeakFadeState # cb_pre

\* C18: every channel of current_color is an integer in 0..255, and a
\* callback leaves no channel above the same channel of target_color.
C18_ChannelsInRange ==
    \A i \in 1..3 : /\ current_color[i] \in 0..255
                     /\ CallbackUpdated => current_color[i] <= target_color[i]

\* loop() is inside its with self.lock block
LoopInCriticalSection == pc["run"] \in {"loop_send", "loop_unlock"}

\* C19: the callback's update and loop()'s read are never in progress
\* together, and whoever is in its critical section is the holder of the lock.
C19_MutualExclusion ==
    /\ ~(InCriticalSection /\ LoopInCriticalSection)
    /\ InCriticalSection => lock = "callback"
    /\ LoopInCriticalSection => lock = "loop"

\* the callback is in the middle of an update while loop() waits for the lock
C19_Witness ==
    /\ InCriticalSection
    /\ PeakFadeState # cb_pre
    /\ pc["run"] = "loop_lock"

\* C20: the fields start as Black and no flag, and every step that changes
\* one of them is a step of the audio callback inside its with self.lock
\* block; no step of run(), loop() or stop() changes any of them.
C20_OnlyCallbackWrites ==
    /\ PeakFadeState = NoState
    /\ [][fade_vars' # fade_vars
            => /\ lock = "callback"
               /\ cb_pc \in {"peak", "color", "show", "fade"}
               /\ cb_pc' # cb_pc
               /\ pc' = pc]_vars

\* loop() has read, under the lock, a lit state written by the callback
C20_Witness ==
    /\ pc["run"] = "loop_unlock"
    /\ lock = "loop"
    /\ PeakFadeState # NoState
    /\ loop_color = current_color
    /\ current_color # BLACK

\* C21: a callback takes Idle to Idle or Peaking, Peaking to Peaking or
\* Fading, and Fading to Fading, Idle or Peaking: never Idle straight to
\* Fading, never Peaking straight to Idle.
C21_TransitionsOnly ==
    CallbackUpdated =>
        /\ IsIdle(cb_pre) \/ IsPeaking(cb_pre) \/ IsFading(cb_pre)
        /\ IsIdle(PeakFadeState) \/ IsPeaking(PeakFadeState) \/ IsFading(PeakFadeState)
        /\ IsIdle(cb_pre) => ~IsFading(PeakFadeState)
        /\ IsPeaking(cb_pre) => ~IsIdle(PeakFadeState)

\* a hold that ran out long ago, longer than a whole fade: the callback
\* still leaves Fading, not Idle
C21_Witness ==
    /\ CallbackUpdated
    /\ IsPeaking(cb_pre)
    /\ cb.current_time - cb_pre.peak_start_time > options.peak_duration + options.fade_duration
    /\ IsFading(PeakFadeState)
    /\ fade_start_time = cb.current_time

\* C22: when blocks keep arriving with advancing timestamps and none is
\* above the threshold any more, a state with the peak or the fading flag
\* set leads to Idle with current_color Black; and the fields change only
\* in steps of a callback inside its critical section.
C22_FadesOut ==
    /\ (peak_detected \/ is_fading) ~> (IsIdle(PeakFadeState) /\ current_color = BLACK)
    /\ [][fade_vars' # fade_vars => InCriticalSection]_vars

\* a quiet block after the last loud one has ended a fade
C22_Witness ==
    /\ CallbackUpdated
    /\ cb.current_time > LoudBy
    /\ IsFading(cb_pre) /\ cb_pre.current_color # BLACK
    /\ IsIdle(PeakFadeState) /\ current_color = BLACK

\* C23: the colour an iteration of loop() transmits is the current_color
\* left by the last callback that completed its critical section (Black
\* before the first), as it stands at the moment of the transmission.
C23_TransmitsLatest ==
    [][(pc["run"] = "loop_send" /\ pc'["run"] = "loop_unlock")
         => device_color' = clamp_brightness(committed_color, options.max_brightness)]_vars

\* loop() has transmitted a half-faded colour while the next block is
\* already waiting for the lock
C23_Witness ==
    /\ pc["run"] = "loop_unlock"
    /\ device_color = committed_color
    /\ device_color \notin {BLACK, target_color}
    /\ is_fading
    /\ cb_pc = "lock"

RECURSIVE TotalDelta(_, _)
TotalDelta(block, i) ==
    IF i >= Len(block) THEN 0
    ELSE Abs(block[i + 1][1] - block[i][1]) + TotalDelta(block, i + 1)

\* C25: for a block of two or more samples the band is the number of the
\* breakpoints 0.01, 0.02, 0.03, 0.04, 0.05 that the mean absolute delta has
\* reached: 0 below 0.01 (a constant block), 5 from 0.05 on (samples
\* alternating between +1 and -1), non-decreasing in between.
C25_BandBreakpoints ==
    (probe.fn = "band" /\ Len(probe.block) >= 2) =>
        LET deltas == Len(probe.block) - 1
            total == TotalDelta(probe.block, 1)
        IN /\ probe.value = Cardinality({k \in 1..5 : total >= Float(k) * deltas})
           /\ total = 0 => probe.value = 0
           /\ (\A i \in 1..deltas : probe.block[i][1] = 0 - probe.block[i + 1][1]
                                      /\ Abs(probe.block[i][1]) = Float(100))
                 => probe.value = 5

\* a block whose mean absolute delta is exactly 0.01 has been put in band 1
C25_Witness ==
    /\ probe.fn = "band"
    /\ probe.block = << <<Float(0)>>, <<Float(1)>>, <<Float(2)>> >>
    /\ probe.value = 1

\* the block handed to the helper has the same sample in every frame
ConstantBlock ==
    /\ probe.block # <<>>
    /\ \A i \in 1..Len(probe.block) : probe.block[i] = probe.block[1]

\* C26: the RMS of an empty block and of a block of zeros is exactly 0, no
\* RMS is negative, and the call changes nothing of the pipeline.
C26_RmsZeroAndNonNegative ==
    /\ [](probe.fn = "rms" =>
            /\ probe.value >= 0
            /\ (\A i \in 1..Len(probe.block) : probe.block[i][1] = 0) => probe.value = 0)
    /\ [][probe'.fn = "rms" =>
             UNCHANGED <<fade_vars, lock, stream, running, pc, device_color>>]_vars

\* the RMS of three zero samples
C26_Witness ==
    /\ probe.fn = "rms"
    /\ probe.block = << <<Float(0)>>, <<Float(0)>>, <<Float(0)>> >>
    /\ probe.value = 0

\* C27 as stated: the RMS of a non-empty block of equal samples a is |a|.
C27_ConstantBlockExact ==
    (probe.fn = "rms" /\ ConstantBlock) => probe.value = Abs(probe.block[1][1])

\* C27: the RMS of a non-empty block of equal samples a is |a| up to the
\* rounding of the floating-point operations: exactly |a| for one or two
\* samples, and within one unit in the last place of |a| per sample for
\* longer blocks.
C27_ConstantBlockRounded ==
    (probe.fn = "rms" /\ ConstantBlock) =>
        LET a == Abs(probe.block[1][1])
        IN /\ Len(probe.block) <= 2 => probe.value = a
           /\ Abs(probe.value - a) <= Len(probe.block) * Ulp(a)

\* three equal samples whose RMS is next to, not at, their value
C27_Witness ==
    /\ probe.fn = "rms"
    /\ ConstantBlock
    /\ Len(probe.block) = 3
    /\ probe.value # Abs(probe.block[1][1])
    /\ Abs(probe.value - Abs(probe.block[1][1])) <= Ulp(Abs(probe.block[1][1]))

\* C28: a block met in Peaking later than peak_duration after
\* peak_start_time leaves the state Fading with fade_start_time the block's
\* timestamp and current_color still equal to the unchanged target_color,
\* whatever the block's RMS and without a new peak; a block met exactly
\* peak_duration after peak_start_time leaves the state Peaking.
C28_HoldEndsInFade ==
    (CallbackUpdated /\ IsPeaking(cb_pre)) =>
        IF cb.current_time - cb_pre.peak_start_time > options.peak_duration
        THEN /\ IsFading(PeakFadeState)
             /\ fade_start_time = cb.current_time
             /\ cb.picked = NoColor
             /\ peak_start_time = cb_pre.peak_start_time
             /\ target_color = cb_pre.target_color
             /\ current_color = target_color
        ELSE cb.current_time - cb_pre.peak_start_time = options.peak_duration
               => IsPeaking(PeakFadeState)

\* a loud block has ended a hold that was overdue by more than a tick
C28_Witness ==
    /\ CallbackUpdated /\ IsPeaking(cb_pre)
    /\ cb.rms > options.peak_threshold
    /\ cb.current_time - cb_pre.peak_start_time > options.peak_duration + 1
    /\ is_fading /\ ~peak_detected
    /\ current_color = target_color /\ current_color # BLACK

\* the callback has registered a peak, and an earlier peak has been through
\* the end of its hold
PeakRegisteredAgain ==
    /\ CallbackUpdated
    /\ cb.picked # NoColor
    /\ cb_pre.fade_start_time # 0

\* C29: a peak is registered more than peak_duration after the peak before
\* it, and a block above the threshold never leaves the state Idle.
C29_PeaksDebounced ==
    /\ PeakRegisteredAgain =>
          cb.current_time - cb_pre.peak_start_time > options.peak_duration
    /\ (CallbackUpdated /\ cb.rms > options.peak_threshold) => ~IsIdle(PeakFadeState)

\* C30: a block not above the threshold met in Idle leaves every field as it
\* was: the state Idle, the colour Black.
C30_QuietBlockInIdle ==
    (CallbackUpdated /\ IsIdle(cb_pre) /\ cb.rms <= options.peak_threshold) =>
        /\ PeakFadeState = cb_pre
        /\ IsIdle(PeakFadeState)
        /\ current_color = BLACK

\* a block exactly at the threshold met in Idle after an earlier fade
C30_Witness ==
    /\ CallbackUpdated /\ IsIdle(cb_pre)
    /\ cb.rms = options.peak_threshold
    /\ cb_pre.fade_start_time # 0
    /\ cb_pre.target_color # BLACK
    /\ PeakFadeState = cb_pre

\* the six colours of the band palette
PaletteColors == {RED, ORANGE, YELLOW, GREEN, BLUE, VIOLET}
\* the stream reads a loopback input
OnLoopbackDevice ==
    /\ device # NoDevice
    /\ PyIndexable(backend.devices, device)
    /\ IsLoopbackInput(PyIndex(backend.devices, device))

RunRank(p) ==
    CASE p = "run" -> 0
      [] p = "start" -> 1
      [] p \in LoopPositions -> 2
      [] p = "stop" -> 3
      [] p = "stop_stream" -> 4
      [] p = "stop_off" -> 5
      [] p = "stopped" -> 6

\* C32: run() calls start() once, before any loop(); it enters loop() only
\* from the test of the running flag and only when the flag is true; every
\* step out of the loop is the call of stop(), which is made once; after it
\* run() never returns to the loop.
C32_RunLifecycle ==
    [][pc'["run"] # pc["run"] =>
         /\ RunRank(pc'["run"]) >= RunRank(pc["run"])
         /\ pc["run"] \notin LoopPositions => RunRank(pc'["run"]) = RunRank(pc["run"]) + 1
         /\ pc["run"] = "start" => pc'["run"] = "while"
         /\ pc'["run"] = "loop" => (pc["run"] = "while" /\ running)
         /\ (pc["run"] = "while" /\ ~running) => pc'["run"] = "stop"
         /\ (pc["run"] \in LoopPositions /\ pc'["run"] \notin LoopPositions)
               => pc'["run"] = "stop"]_vars

\* run() has left its loop for stop() with the running flag still true and
\* the stream open: by Ctrl-C or by an exception of loop()
C32_Witness ==
    /\ pc["run"] = "stop"
    /\ running
    /\ stream = "active"
    /\ pc["ext"] = "idle"

\* the callback is between lines 303 and 320 of a peak: the peak flag is
\* set, the colours and the fading flag are still to be assigned
PeakHalfRegistered == cb_pc \in {"color", "show"}

\* C33: the peak flag and the fading flag are never both set, in every state
\* but those inside the registration of a peak, which the lock hides.
C33_FlagsExclusive ==
    ~PeakHalfRegistered => ~(peak_detected /\ is_fading)

\* a peak has interrupted a fade and the callback has cleared the fading flag
C33_Witness ==
    /\ CallbackUpdated
    /\ IsFading(cb_pre)
    /\ cb.picked # NoColor
    /\ peak_detected /\ ~is_fading
    /\ lock = "callback"

\* C34: whenever neither flag is set, current_color is Black, and so is the
\* colour the callback last committed for the render loop.
C34_IdleIsBlack ==
    IsIdle(PeakFadeState) =>
        /\ current_color = BLACK
        /\ cb_pc = "idle" => committed_color = BLACK

\* between callbacks, Idle again after a coloured peak and its fade
C34_Witness ==
    /\ cb_pc = "idle"
    /\ IsIdle(PeakFadeState)
    /\ target_color # BLACK
    /\ fade_start_time > peak_start_time
    /\ current_color = BLACK

\* C35: in Peaking current_color equals target_color, and a block met in
\* Peaking leaves both colours as they were, whether it stays in the hold or
\* ends it.
C35_HoldKeepsColour ==
    /\ (~PeakHalfRegistered /\ IsPeaking(PeakFadeState)) => current_color = target_color
    /\ (CallbackUpdated /\ IsPeaking(cb_pre)) =>
          /\ target_color = cb_pre.target_color
          /\ current_color = cb_pre.current_color

\* a loud block of another band than the held colour's has arrived during
\* the hold
C35_Witness ==
    /\ CallbackUpdated
    /\ IsPeaking(cb_pre) /\ IsPeaking(PeakFadeState)
    /\ options.mode = "loopback"
    /\ cb.rms > options.peak_threshold
    /\ \A rnd \in RandomColors :
          get_color_for_frequency_band(analyze_frequency_bands(cb.indata), rnd)
             # target_color
    /\ current_color = target_color

\* C36: the band classifier answers an index in 0..5 for every block, 0 for
\* an empty block and for a block of one sample, so the colour the mapper
\* gives for its answer is a palette colour whatever the random draw.
C36_BandInRange ==
    probe.fn = "band" =>
        /\ probe.value \in 0..5
        /\ Len(probe.block) < 2 => probe.value = 0
        /\ \A rnd \in RandomColors :
              get_color_for_frequency_band(probe.value, rnd) \in PaletteColors

\* the classifier has been given an empty block, on which data[0] fails
C36_Witness ==
    /\ probe.fn = "band"
    /\ probe.block = <<>>
    /\ probe.value = 0
    /\ get_color_for_frequency_band(probe.value, BLACK) = RED

\* C37: the lock is held exactly while its holder is inside its with block,
\* so every exit, by exception too, has released it and no holder waits for
\* it; a callback and a loop() that wait for the lock get it.
C37_LockReleasedAndGranted ==
    /\ [](/\ lock = "callback" <=> InCriticalSection
          /\ lock = "loop" <=> LoopInCriticalSection
          /\ lock \in {"free", "callback", "loop"})
    /\ (cb_pc = "lock") ~> (lock = "callback")
    /\ (pc["run"] = "loop_lock") ~> (lock = "loop")

\* the callback has left its with block by the exception while loop() was
\* waiting for the lock
C37_Witness ==
    /\ cb_pc = "except"
    /\ lock = "callback"
    /\ pc["run"] = "loop_lock"

\* C38: once a call of stop() has returned, every colour that goes out to
\* the devices is Black.
C38_OnlyBlackAfterStop ==
    [][StopReturned => (device_color' = device_color \/ device_color' = BLACK)]_vars

\* start() has returned and left no active stream behind
StartFailed == Started /\ stream \in {"None", "opened"}

\* C39: after a start() that failed, the running flag is false and run() is
\* never inside the body of loop(): it goes from the test of the flag to
\* stop().
C39_FailedStartEndsRun ==
    StartFailed =>
        /\ ~running
        /\ pc["run"] \notin {"loop_lock", "loop_send", "loop_unlock"}


====
